---- MODULE Spec2Model ----
(***************************************************************************)
(* HPC cluster dashboard (week3/streamlit_processed.py) and the log        *)
(* pre-processing script (week3/processed_logs.py).                        *)
(*                                                                         *)
(* Text is modelled as a sequence of one-character strings, so that        *)
(* formatting (str, f"{m:02d}", f"{x:+.1f}%") and parsing (int) are        *)
(* computed and not assumed to be inverse to each other.                   *)
(* A float is an exact rational n/d, or nan, or +/-inf; the rounding of    *)
(* binary floating point is not modelled (the values used are small        *)
(* integers and their quotients, far from any rounding tie), nor is the    *)
(* sign of zero (no operand is negative where a zero is produced).         *)
(***************************************************************************)
EXTENDS Integers, Sequences, FiniteSets, TLC

VARIABLES
    pc,              \* position in the script being run
    csv,             \* processed_logs.csv: [columns, rows]
    heap,            \* the DataFrame objects alive, by reference 1..Len(heap)
    df,              \* reference of the loaded frame (0: none)
    filtered_df,     \* reference of the filtered frame (0: none)
    ds,              \* reference of the frame handed to the chart (0: none)
    selected_year,   \* sidebar choices, as text
    selected_month,
    selected_day,
    metrics,         \* the "Latest Snapshot" numbers and texts
    error,           \* "" or the exception that ended the run
    max_points,      \* argument of downsample_df
    series,          \* argument of safe_last_two: [some, vals]
    sources          \* processed_logs.py: the CSV files of the cleaned/ folder

vars == <<pc, csv, heap, df, filtered_df, ds, selected_year, selected_month,
          selected_day, metrics, error, max_points, series, sources>>

----------------------------------------------------------------------------
(* Bounds of the model *)

MaxRows == 3
MaxN == 7
MaxPoints == 7
MaxLen == 3
MaxVal == 3
MaxNodes == 1
MaxFiles == 2

\* The chart setting of streamlit_processed.py:12 is 1000 ("tune if needed");
\* it is scaled down here so that a series of MaxRows rows exceeds it.
DOWNSAMPLE_POINTS == 2

----------------------------------------------------------------------------
(* Text *)

Digits == <<"0", "1", "2", "3", "4", "5", "6", "7", "8", "9">>

ALL == <<"A", "l", "l">>

RECURSIVE str(_)
\* Python str(n) / format "d" of a non-negative integer
str(n) == IF n < 10 THEN <<Digits[n + 1]>>
          ELSE str(n \div 10) \o <<Digits[(n % 10) + 1]>>

\* f"{n:02d}"
fmt02d(n) == IF Len(str(n)) < 2 THEN <<"0">> \o str(n) ELSE str(n)

DigitVal(c) == CHOOSE i \in 0..9 : Digits[i + 1] = c

RECURSIVE int(_)
\* Python int(s) of a string of decimal digits (leading zeros allowed)
int(s) == IF Len(s) = 0 THEN 0
          ELSE 10 * int(SubSeq(s, 1, Len(s) - 1)) + DigitVal(s[Len(s)])

----------------------------------------------------------------------------
(* Floats *)

Abs(x) == IF x < 0 THEN -x ELSE x

RECURSIVE GCD(_, _)
GCD(a, b) == IF b = 0 THEN a ELSE GCD(b, a % b)

\* the rational n/d (d # 0) in lowest terms with a positive denominator
F(n, d) ==
    LET g == GCD(Abs(n), Abs(d))
        s == IF d < 0 THEN -1 ELSE 1
    IN [k |-> "num", n |-> (s * n) \div g, d |-> (s * d) \div g]

NaN == [k |-> "nan", n |-> 0, d |-> 1]
PInf == [k |-> "inf", n |-> 1, d |-> 1]
NInf == [k |-> "inf", n |-> -1, d |-> 1]
\* the cell of a column the frame does not have
Absent == [k |-> "absent", n |-> 0, d |-> 1]

Sign(x) == IF x > 0 THEN 1 ELSE IF x < 0 THEN -1 ELSE 0
InfOf(s) == IF s < 0 THEN NInf ELSE PInf

FSub(a, b) ==
    IF a.k = "nan" \/ b.k = "nan" THEN NaN
    ELSE IF a.k = "inf" /\ b.k = "inf" THEN (IF a.n = b.n THEN NaN ELSE a)
    ELSE IF a.k = "inf" THEN a
    ELSE IF b.k = "inf" THEN InfOf(-b.n)
    ELSE F(a.n * b.d - b.n * a.d, a.d * b.d)

FAdd(a, b) ==
    IF a.k = "nan" \/ b.k = "nan" THEN NaN
    ELSE IF a.k = "inf" /\ b.k = "inf" THEN (IF a.n = b.n THEN a ELSE NaN)
    ELSE IF a.k = "inf" THEN a
    ELSE IF b.k = "inf" THEN b
    ELSE F(a.n * b.d + b.n * a.d, a.d * b.d)

FMul(a, b) ==
    IF a.k = "nan" \/ b.k = "nan" THEN NaN
    ELSE IF a.k = "inf" \/ b.k = "inf"
         THEN (IF a.n = 0 \/ b.n = 0 THEN NaN ELSE InfOf(Sign(a.n) * Sign(b.n)))
    ELSE F(a.n * b.n, a.d * b.d)

\* IEEE division, as numpy/pandas divide columns: x/0 is +/-inf, 0/0 is nan
FDiv(a, b) ==
    IF a.k = "nan" \/ b.k = "nan" THEN NaN
    ELSE IF a.k = "inf" /\ b.k = "inf" THEN NaN
    ELSE IF a.k = "inf" THEN InfOf(a.n * (IF b.n < 0 THEN -1 ELSE 1))
    ELSE IF b.k = "inf" THEN F(0, 1)
    ELSE IF b.n = 0 THEN (IF a.n = 0 THEN NaN ELSE InfOf(Sign(a.n)))
    ELSE F(a.n * b.d, a.d * b.n)

\* x != 0 (true of nan and of the infinities)
FNonZero(a) == ~(a.k = "num" /\ a.n = 0)

\* n/d (n >= 0, d > 0) rounded to the nearest integer, ties to even
RoundHalfEven(n, d) ==
    LET q == n \div d
        r == n % d
    IN IF 2 * r < d THEN q
       ELSE IF 2 * r > d THEN q + 1
       ELSE IF q % 2 = 0 THEN q ELSE q + 1

\* f"{x:+.1f}"
fmt_plus_1f(x) ==
    IF x.k = "nan" THEN <<"+", "n", "a", "n">>
    ELSE IF x.k = "inf"
         THEN (IF x.n < 0 THEN <<"-">> ELSE <<"+">>) \o <<"i", "n", "f">>
    ELSE LET t == RoundHalfEven(10 * Abs(x.n), x.d)
         IN (IF x.n < 0 THEN <<"-">> ELSE <<"+">>)
            \o str(t \div 10) \o <<".">> \o str(t % 10)

----------------------------------------------------------------------------
(* Timestamps and frames *)

\* a timestamp cell of a CSV: a parsed date, an empty cell (NaT once read),
\* or text no date-time parser accepts
Ts(y, m, d) == [k |-> "ts", y |-> y, m |-> m, d |-> d]
NaT == [k |-> "nat", y |-> 0, m |-> 0, d |-> 0]
BadTs == [k |-> "bad", y |-> 0, m |-> 0, d |-> 0]

Dates == {Ts(2023, 1, 5), Ts(2023, 12, 5), Ts(2023, 12, 31),
          Ts(2024, 1, 5), Ts(2024, 12, 31)}

TsCells == Dates \cup {NaT, BadTs}

\* a <= b on timestamps
TsLeq(a, b) ==
    \/ a.y < b.y
    \/ a.y = b.y /\ a.m < b.m
    \/ a.y = b.y /\ a.m = b.m /\ a.d <= b.d

Frame(cols, rows) == [columns |-> cols, rows |-> rows]

IsSorted(rows) ==
    \A i \in 1..(Len(rows) - 1) : TsLeq(rows[i].timestamp, rows[i + 1].timestamp)

\* rows reordered by the 1-based positions p
Reorder(rows, p) == [i \in 1..Len(rows) |-> rows[p[i]]]

Perms(n) == {p \in [1..n -> 1..n] : \A i, j \in 1..n : p[i] = p[j] => i = j}

sort_values_none(rows) == {rows}

\* df.sort_values("timestamp"): the default kind is quicksort, which keeps no
\* order among equal keys, so every sorted arrangement is a possible result
sort_values(rows) ==
    {Reorder(rows, p) : p \in {q \in Perms(Len(rows)) : IsSorted(Reorder(rows, q))}}

RECURSIVE Keep(_, _)
\* the rows r with mk[position of r] true, in order (boolean indexing)
Keep(rows, mk) ==
    IF Len(rows) = 0 THEN <<>>
    ELSE LET n == Len(rows)
             front == Keep(SubSeq(rows, 1, n - 1), SubSeq(mk, 1, n - 1))
         IN IF mk[n] THEN Append(front, rows[n]) ELSE front

dropna_none(rows) == rows

\* df.dropna(subset=["timestamp"])
dropna(rows) == Keep(rows, [i \in 1..Len(rows) |-> rows[i].timestamp.k # "nat"])

\* the outcomes of load_data(csv_path): [err, frame]
load_data(c) ==
    IF "timestamp" \notin c.columns
    THEN \* read_csv(parse_dates=["timestamp"]) raises for the missing column
         \* and the fallback assigns df["timestamp"] = to_datetime(None) = None:
         \* the column now exists, every row is dropped.  A pandas that does
         \* not raise for the missing column reaches the check of line 50.
         {[err |-> "", frame |-> Frame(c.columns \cup {"timestamp"}, r)] :
              r \in sort_values(dropna([i \in 1..Len(c.rows) |->
                                          [c.rows[i] EXCEPT !.timestamp = NaT]]))}
         \cup {[err |-> "ValueError", frame |-> Frame({}, <<>>)]}
    ELSE IF \E i \in 1..Len(c.rows) : c.rows[i].timestamp.k = "bad"
    THEN \* read_csv leaves a column it cannot parse as text and raises
         \* nothing, so the coercing fallback is not taken; dropna drops the
         \* empty cells only and DatetimeIndex (line 54) raises on the text
         {[err |-> "ParserError", frame |-> Frame({}, <<>>)]}
    ELSE {[err |-> "", frame |-> Frame(c.columns, r)] :
              r \in sort_values(dropna(c.rows))}

\* df.index (a DatetimeIndex over the timestamp column)
index(d) == [i \in 1..Len(d.rows) |-> d.rows[i].timestamp]

\* 0-based positions np.linspace(0, stop, num=num, dtype=int): the last is set
\* to stop, the others are i * (stop / (num - 1)) truncated (computed here on
\* integers; a float product may fall one short on an interior position)
linspace(stop, num) ==
    [i \in 1..num |->
        IF num > 1 /\ i = num THEN stop
        ELSE IF num > 1 THEN ((i - 1) * stop) \div (num - 1)
        ELSE 0]

\* df.iloc[idx], idx 0-based
iloc(d, idx) == Frame(d.columns, [i \in 1..Len(idx) |-> d.rows[idx[i] + 1]])

\* df.loc[mask]
loc(d, mk) == Frame(d.columns, Keep(d.rows, mk))

\* df.assign(efficiency=...)
assign_efficiency(d) ==
    Frame(d.columns \cup {"efficiency"},
          [i \in 1..Len(d.rows) |->
              [d.rows[i] EXCEPT !.efficiency =
                  FDiv(FMul(d.rows[i].cpu_percent, d.rows[i].node_utilization),
                       F(100, 1))]])

\* df.get(col): the column as a series, or None
get(d, col) ==
    IF col \in d.columns
    THEN [some |-> TRUE, vals |-> [i \in 1..Len(d.rows) |-> d.rows[i][col]]]
    ELSE [some |-> FALSE, vals |-> <<>>]

None == [some |-> FALSE, vals |-> <<>>]

----------------------------------------------------------------------------
(* Objects: an operation returns the heap it leaves and the reference of   *)
(* its result                                                              *)

Alloc(h, d) == [heap |-> Append(h, d), ref |-> Len(h) + 1]
Same(h, r) == [heap |-> h, ref |-> r]

downsample_truncate(h, r, mp) ==
    LET n == Len(h[r].rows)
    IN IF n <= mp THEN Same(h, r)
       ELSE Alloc(h, iloc(h[r], [i \in 1..mp |-> i - 1]))

\* downsample_df(df, max_points); max_points >= 0
downsample_df(h, r, mp) ==
    LET n == Len(h[r].rows)
    IN IF n <= mp THEN Same(h, r)
       ELSE Alloc(h, iloc(h[r], linspace(n - 1, mp)))

compute_efficiency_inplace(h, r) ==
    IF "cpu_percent" \in h[r].columns /\ "node_utilization" \in h[r].columns
    THEN Same([h EXCEPT ![r] = assign_efficiency(h[r])], r)
    ELSE Same(h, r)

\* compute_efficiency(df)
compute_efficiency(h, r) ==
    IF "cpu_percent" \in h[r].columns /\ "node_utilization" \in h[r].columns
    THEN Alloc(h, assign_efficiency(h[r]))
    ELSE Same(h, r)

----------------------------------------------------------------------------
(* Latest-snapshot numbers *)

safe_last_two_first(s) ==
    IF ~s.some \/ Len(s.vals) = 0 THEN <<F(0, 1), F(0, 1)>>
    ELSE IF Len(s.vals) = 1 THEN <<s.vals[1], s.vals[1]>>
    ELSE <<s.vals[Len(s.vals)], s.vals[1]>>

\* safe_last_two(series): <<last, previous>>
safe_last_two(s) ==
    IF ~s.some \/ Len(s.vals) = 0 THEN <<F(0, 1), F(0, 1)>>
    ELSE IF Len(s.vals) = 1 THEN <<s.vals[1], s.vals[1]>>
    ELSE <<s.vals[Len(s.vals)], s.vals[Len(s.vals) - 1]>>

\* cpu_delta = cpu_last - cpu_prev
cpu_delta(last, prev) == FSub(last, prev)

cpu_pct_str_unguarded(delta, prev) ==
    fmt_plus_1f(FMul(FDiv(delta, prev), F(100, 1))) \o <<"%">>

\* cpu_pct_str; the same expression gives node_pct_str, run_pct_str, que_pct_str
cpu_pct_str(delta, prev) ==
    IF FNonZero(prev)
    THEN fmt_plus_1f(FMul(FDiv(delta, prev), F(100, 1))) \o <<"%">>
    ELSE <<"+", "0", ".", "0", "%">>

\* the three values shown for one column
Metric(s) ==
    LET lt == safe_last_two(s)
        dl == cpu_delta(lt[1], lt[2])
    IN [last |-> lt[1], delta |-> dl, pct_str |-> cpu_pct_str(dl, lt[2])]

NoMetric == [last |-> Absent, delta |-> Absent, pct_str |-> <<>>]
NoMetrics == [cpu |-> NoMetric, node |-> NoMetric]

----------------------------------------------------------------------------
(* Sidebar *)

\* the elements of a set of integers in increasing order
Ascending(S) ==
    CHOOSE s \in [1..Cardinality(S) -> S] :
        \A i, j \in 1..Cardinality(S) : i < j => s[i] < s[j]

Reverse(s) == [i \in 1..Len(s) |-> s[Len(s) + 1 - i]]

\* years: the distinct years of the index as text, latest first (four-digit
\* years sort as text the way they sort as numbers)
years(d) ==
    LET ys == {index(d)[i].y : i \in 1..Len(d.rows)}
    IN [i \in 1..Cardinality(ys) |-> str(Reverse(Ascending(ys))[i])]

months_any_year(d, year_int) ==
    LET ms == {index(d)[i].m : i \in 1..Len(d.rows)}
    IN [i \in 1..Cardinality(ms) |-> fmt02d(Ascending(ms)[i])]

\* months_str for the chosen year
months_str(d, year_int) ==
    LET ms == {index(d)[i].m : i \in {j \in 1..Len(d.rows) : index(d)[j].y = year_int}}
    IN [i \in 1..Cardinality(ms) |-> fmt02d(Ascending(ms)[i])]

\* days_str for the chosen year and month
days_str(d, year_int, month_int) ==
    LET dd == {index(d)[i].d : i \in {j \in 1..Len(d.rows) :
                   index(d)[j].y = year_int /\ index(d)[j].m = month_int}}
    IN [i \in 1..Cardinality(dd) |-> fmt02d(Ascending(dd)[i])]

\* st.selectbox(options=["All"] + opts): what the user can pick
Options(opts) == {ALL} \cup {opts[i] : i \in 1..Len(opts)}

mask_any(d, sy, sm, sd) ==
    [i \in 1..Len(d.rows) |->
        \/ (sy # ALL /\ index(d)[i].y = int(sy))
        \/ (sm # ALL /\ index(d)[i].m = int(sm))
        \/ (sd # ALL /\ index(d)[i].d = int(sd))
        \/ (sy = ALL /\ sm = ALL /\ sd = ALL)]

\* mask: np.ones, then &= one comparison per choice other than "All"
mask(d, sy, sm, sd) ==
    [i \in 1..Len(d.rows) |->
        /\ (sy # ALL => index(d)[i].y = int(sy))
        /\ (sm # ALL => index(d)[i].m = int(sm))
        /\ (sd # ALL => index(d)[i].d = int(sd))]

----------------------------------------------------------------------------
(* The dashboard script, top to bottom *)

AllColumns == {"timestamp", "cpu_percent", "node_utilization"}

ColumnSets == {AllColumns} \cup {AllColumns \ {c} : c \in AllColumns}

\* line i of a CSV with the columns cols; a column the file lacks has no cell
CsvRow(i, cell, cols) ==
    [line |-> i,
     timestamp |-> IF "timestamp" \in cols THEN cell ELSE NaT,
     cpu_percent |-> IF "cpu_percent" \in cols THEN F(10 * i, 1) ELSE Absent,
     node_utilization |->
        IF "node_utilization" \in cols
        THEN (IF i % 2 = 0 THEN NaN ELSE F(80, 1))
        ELSE Absent,
     efficiency |-> Absent]

CsvFiles ==
    {Frame(cols, [i \in 1..n |-> CsvRow(i, cells[i], cols)]) :
        <<cols, n, cells>> \in
            {t \in ColumnSets \X (0..MaxRows) \X UNION {[1..m -> TsCells] : m \in 0..MaxRows} :
                /\ DOMAIN t[3] = 1..t[2]
                /\ ("timestamp" \notin t[1] => \A i \in 1..t[2] : t[3][i] = NaT)}}

Idle ==
    /\ heap = <<>> /\ df = 0 /\ filtered_df = 0 /\ ds = 0
    /\ selected_year = ALL /\ selected_month = ALL /\ selected_day = ALL
    /\ metrics = NoMetrics /\ error = ""

Init ==
    /\ pc = "load"
    /\ csv \in CsvFiles
    /\ Idle
    /\ max_points = DOWNSAMPLE_POINTS
    /\ series = None
    /\ sources = <<>>

\* lines 140-145: df = load_data(csv_path), st.stop() on an exception
LoadData ==
    /\ pc = "load"
    /\ \E o \in load_data(csv) :
          /\ error' = o.err
          /\ IF o.err = ""
             THEN heap' = <<o.frame>> /\ df' = 1 /\ pc' = "sidebar"
             ELSE heap' = heap /\ df' = df /\ pc' = "load_failed"
    /\ UNCHANGED <<csv, filtered_df, ds, selected_year, selected_month,
                   selected_day, metrics, max_points, series, sources>>

\* lines 152-154: "No data available"
NoData ==
    /\ pc = "sidebar"
    /\ Len(heap[df].rows) = 0
    /\ pc' = "no_data"
    /\ UNCHANGED <<csv, heap, df, filtered_df, ds, selected_year, selected_month,
                   selected_day, metrics, error, max_points, series, sources>>

\* lines 156-162: the Year select box
SelectYear ==
    /\ pc = "sidebar"
    /\ Len(heap[df].rows) > 0
    /\ \E y \in Options(years(heap[df])) :
          /\ selected_year' = y
          /\ pc' = IF y # ALL THEN "month" ELSE "filter"
    /\ selected_month' = ALL
    /\ selected_day' = ALL
    /\ UNCHANGED <<csv, heap, df, filtered_df, ds, metrics, error, max_points,
                   series, sources>>

\* lines 164-169: the Month select box
SelectMonth ==
    /\ pc = "month"
    /\ \E m \in Options(months_str(heap[df], int(selected_year))) :
          /\ selected_month' = m
          /\ pc' = IF m # ALL THEN "day" ELSE "filter"
    /\ UNCHANGED <<csv, heap, df, filtered_df, ds, selected_year, selected_day,
                   metrics, error, max_points, series, sources>>

\* lines 170-173: the Day select box
SelectDay ==
    /\ pc = "day"
    /\ \E d \in Options(days_str(heap[df], int(selected_year), int(selected_month))) :
          selected_day' = d
    /\ pc' = "filter"
    /\ UNCHANGED <<csv, heap, df, filtered_df, ds, selected_year, selected_month,
                   metrics, error, max_points, series, sources>>

\* lines 176-187: filtered_df = df.loc[mask], st.stop() when it is empty
ApplyFilter ==
    /\ pc = "filter"
    /\ LET o == Alloc(heap, loc(heap[df],
                        mask(heap[df], selected_year, selected_month, selected_day)))
       IN /\ heap' = o.heap
          /\ filtered_df' = o.ref
          /\ pc' = IF Len(o.heap[o.ref].rows) = 0 THEN "no_match" ELSE "efficiency"
    /\ UNCHANGED <<csv, df, ds, selected_year, selected_month, selected_day,
                   metrics, error, max_points, series, sources>>

\* line 190: filtered_df = compute_efficiency(filtered_df)
ComputeEfficiency ==
    /\ pc = "efficiency"
    /\ LET o == compute_efficiency(heap, filtered_df)
       IN heap' = o.heap /\ filtered_df' = o.ref
    /\ pc' = "metrics"
    /\ UNCHANGED <<csv, df, ds, selected_year, selected_month, selected_day,
                   metrics, error, max_points, series, sources>>

\* lines 204-212: the CPU and node numbers of the latest snapshot
LatestSnapshot ==
    /\ pc = "metrics"
    /\ metrics' = [cpu |-> Metric(get(heap[filtered_df], "cpu_percent")),
                   node |-> Metric(get(heap[filtered_df], "node_utilization"))]
    /\ pc' = "plot"
    /\ UNCHANGED <<csv, heap, df, filtered_df, ds, selected_year, selected_month,
                   selected_day, error, max_points, series, sources>>

\* lines 95-100, 249-256: plot_timeseries downsamples what it draws
PlotTimeseries ==
    /\ pc = "plot"
    /\ LET o == downsample_df(heap, filtered_df, max_points)
       IN heap' = o.heap /\ ds' = o.ref
    /\ pc' = "done"
    /\ UNCHANGED <<csv, df, filtered_df, selected_year, selected_month,
                   selected_day, metrics, error, max_points, series, sources>>

\* a widget interaction runs the script again; load_data is answered from the
\* cache and the frames of the previous run are gone
Rerun ==
    /\ pc \in {"done", "no_match"}
    /\ pc' = "sidebar"
    /\ heap' = SubSeq(heap, 1, 1)
    /\ filtered_df' = 0 /\ ds' = 0
    /\ selected_year' = ALL /\ selected_month' = ALL /\ selected_day' = ALL
    /\ metrics' = NoMetrics
    /\ UNCHANGED <<csv, df, error, max_points, series, sources>>

Next ==
    \/ LoadData
    \/ NoData
    \/ SelectYear
    \/ SelectMonth
    \/ SelectDay
    \/ ApplyFilter
    \/ ComputeEfficiency
    \/ LatestSnapshot
    \/ PlotTimeseries
    \/ Rerun

Spec == Init /\ [][Next]_vars

----------------------------------------------------------------------------
(* downsample_df on its own: every series length and every max_points *)

\* a sorted series of n rows, one per day
DaySeries(n) == Frame(AllColumns, [i \in 1..n |-> CsvRow(i, Ts(2024, 1, i), AllColumns)])

InitDown ==
    /\ pc = "downsample"
    /\ csv = Frame({}, <<>>)
    /\ \E n \in 0..MaxN : heap = <<DaySeries(n)>>
    /\ df = 1 /\ filtered_df = 1 /\ ds = 0
    /\ selected_year = ALL /\ selected_month = ALL /\ selected_day = ALL
    /\ metrics = NoMetrics /\ error = ""
    /\ max_points \in 0..MaxPoints
    /\ series = None
    /\ sources = <<>>

Downsample ==
    /\ pc = "downsample"
    /\ LET o == downsample_df(heap, filtered_df, max_points)
       IN heap' = o.heap /\ ds' = o.ref
    /\ pc' = "downsampled"
    /\ UNCHANGED <<csv, df, filtered_df, selected_year, selected_month,
                   selected_day, metrics, error, max_points, series, sources>>

NextDown == Downsample

SpecDown == InitDown /\ [][NextDown]_vars

----------------------------------------------------------------------------
(* The latest-snapshot computation on its own: every short series *)

FloatVals == {F(v, 1) : v \in 0..MaxVal} \cup {NaN, PInf}

InitDelta ==
    /\ pc = "delta"
    /\ csv = Frame({}, <<>>)
    /\ Idle
    /\ max_points = DOWNSAMPLE_POINTS
    /\ series \in {None} \cup
          {[some |-> TRUE, vals |-> v] : v \in UNION {[1..n -> FloatVals] : n \in 0..MaxLen}}
    /\ sources = <<>>

Delta ==
    /\ pc = "delta"
    /\ metrics' = [cpu |-> Metric(series), node |-> NoMetric]
    /\ pc' = "delta_done"
    /\ UNCHANGED <<csv, heap, df, filtered_df, ds, selected_year, selected_month,
                   selected_day, error, max_points, series, sources>>

NextDelta == Delta

SpecDelta == InitDelta /\ [][NextDelta]_vars

----------------------------------------------------------------------------
(* The filter of lines 176-184 on its own: every combination of choices *)

YearTexts == {ALL} \cup {str(t.y) : t \in Dates}
MonthTexts == {ALL} \cup {fmt02d(t.m) : t \in Dates}
DayTexts == {ALL} \cup {fmt02d(t.d) : t \in Dates}

\* the frames load_data can return: sorted, every timestamp parsed
LoadedFrames ==
    {Frame(AllColumns, [i \in 1..Len(cells) |-> CsvRow(i, cells[i], AllColumns)]) :
        cells \in {c \in UNION {[1..n -> Dates] : n \in 0..MaxRows} :
                     \A i \in 1..(Len(c) - 1) : TsLeq(c[i], c[i + 1])}}

InitQuery ==
    /\ pc = "filter"
    /\ csv = Frame({}, <<>>)
    /\ \E d \in LoadedFrames : heap = <<d>>
    /\ df = 1 /\ filtered_df = 0 /\ ds = 0
    /\ selected_year \in YearTexts
    /\ selected_month \in MonthTexts
    /\ selected_day \in DayTexts
    /\ metrics = NoMetrics /\ error = ""
    /\ max_points = DOWNSAMPLE_POINTS
    /\ series = None
    /\ sources = <<>>

NextQuery == ApplyFilter

SpecQuery == InitQuery /\ [][NextQuery]_vars

----------------------------------------------------------------------------
(* processed_logs.py, top to bottom; full_df is heap[1] *)

LogColumns == {"timestamp", "cpu_percent", "nodes_running", "nodes_total",
               "jobs_running", "jobs_queued", "jobs_held", "jobs_exiting"}

LogColumnSets ==
    {LogColumns} \cup {LogColumns \ {c} : c \in {"timestamp", "cpu_percent", "nodes_total"}}

LogCells == {Ts(2024, 1, 5), Ts(2023, 12, 31), BadTs}

RawRow(cell, nr, nt) ==
    [line |-> 0, timestamp |-> cell,
     cpu_percent |-> F(50, 1),
     nodes_running |-> F(nr, 1), nodes_total |-> F(nt, 1),
     jobs_running |-> F(3, 1), jobs_queued |-> F(2, 1),
     jobs_held |-> F(0, 1), jobs_exiting |-> F(0, 1),
     node_utilization |-> Absent, cpu_idle_percent |-> Absent, jobs_total |-> Absent]

\* a log file of the cleaned/ folder: no row or one row
LogFiles(cols) ==
    {Frame(cols, <<>>)} \cup
    {Frame(cols, <<RawRow(c, nr, nt)>>) :
        <<c, nr, nt>> \in LogCells \X (0..MaxNodes) \X (0..MaxNodes)}

RECURSIVE Concat(_)
\* the rows of the files, one file after the other
Concat(files) ==
    IF Len(files) = 0 THEN <<>>
    ELSE Concat(SubSeq(files, 1, Len(files) - 1)) \o files[Len(files)].rows

\* pd.concat(dfs, ignore_index=True): rows renumbered from 0
concat(files) ==
    LET rows == Concat(files)
    IN Frame(UNION {files[i].columns : i \in 1..Len(files)},
             [i \in 1..Len(rows) |-> [rows[i] EXCEPT !.line = i - 1]])

node_utilization_guarded(nodes_running, nodes_total) ==
    IF nodes_total.k = "num" /\ nodes_total.n = 0 THEN F(0, 1)
    ELSE FMul(FDiv(nodes_running, nodes_total), F(100, 1))

\* line 34: (nodes_running / nodes_total) * 100, a division of columns
node_utilization(nodes_running, nodes_total) ==
    FMul(FDiv(nodes_running, nodes_total), F(100, 1))

\* lines 34-36 on one row
derive(r) ==
    [r EXCEPT
        !.node_utilization = node_utilization(r.nodes_running, r.nodes_total),
        !.cpu_idle_percent = FSub(F(100, 1), r.cpu_percent),
        !.jobs_total = FAdd(FAdd(FAdd(r.jobs_running, r.jobs_queued), r.jobs_held),
                            r.jobs_exiting)]

InitLogs ==
    /\ pc = "glob"
    /\ csv = Frame({}, <<>>)
    /\ Idle
    /\ max_points = DOWNSAMPLE_POINTS
    /\ series = None
    /\ \E cols \in LogColumnSets :
          sources \in UNION {[1..n -> LogFiles(cols)] : n \in 0..MaxFiles}

LogsUnchanged ==
    UNCHANGED <<csv, df, filtered_df, ds, selected_year, selected_month,
                selected_day, metrics, max_points, series, sources>>

\* lines 12-25: glob, exit() without files, read and concatenate
LogsRead ==
    /\ pc = "glob"
    /\ IF Len(sources) = 0
       THEN heap' = heap /\ pc' = "no_files"
       ELSE heap' = <<concat(sources)>> /\ pc' = "convert"
    /\ error' = error
    /\ LogsUnchanged

\* line 28: pd.to_datetime(full_df["timestamp"]), errors="raise" by default
LogsConvert ==
    /\ pc = "convert"
    /\ IF "timestamp" \notin heap[1].columns
       THEN error' = "KeyError" /\ pc' = "logs_failed"
       ELSE IF \E i \in 1..Len(heap[1].rows) : heap[1].rows[i].timestamp.k = "bad"
       THEN error' = "ParserError" /\ pc' = "logs_failed"
       ELSE error' = error /\ pc' = "sort"
    /\ heap' = heap
    /\ LogsUnchanged

\* line 31: full_df = full_df.sort_values("timestamp")
LogsSort ==
    /\ pc = "sort"
    /\ \E r \in sort_values(heap[1].rows) : heap' = <<Frame(heap[1].columns, r)>>
    /\ pc' = "derive"
    /\ error' = error
    /\ LogsUnchanged

\* lines 34-36: the derived columns
LogsDerive ==
    /\ pc = "derive"
    /\ IF LogColumns \subseteq heap[1].columns
       THEN /\ heap' = <<Frame(heap[1].columns \cup
                                 {"node_utilization", "cpu_idle_percent", "jobs_total"},
                               [i \in 1..Len(heap[1].rows) |-> derive(heap[1].rows[i])])>>
            /\ error' = error
            /\ pc' = "save"
       ELSE heap' = heap /\ error' = "KeyError" /\ pc' = "logs_failed"
    /\ LogsUnchanged

\* lines 52-53: full_df.to_csv("processed_logs.csv")
LogsSave ==
    /\ pc = "save"
    /\ csv' = heap[1]
    /\ pc' = "saved"
    /\ UNCHANGED <<heap, df, filtered_df, ds, selected_year, selected_month,
                   selected_day, metrics, error, max_points, series, sources>>

NextLogs ==
    \/ LogsRead
    \/ LogsConvert
    \/ LogsSort
    \/ LogsDerive
    \/ LogsSave

SpecLogs == InitLogs /\ [][NextLogs]_vars

----------------------------------------------------------------------------
(* Properties *)

Loaded == heap[df].rows
Filtered == heap[filtered_df].rows
Drawn == heap[ds].rows

IsSigned1f(text, x) ==
    IF x.k = "nan" THEN text = <<"+", "n", "a", "n", "%">>
    ELSE IF x.k = "inf"
    THEN text = <<IF x.n < 0 THEN "-" ELSE "+", "i", "n", "f", "%">>
    ELSE \E t \in {(10 * Abs(x.n)) \div x.d, ((10 * Abs(x.n)) \div x.d) + 1} :
            /\ 2 * Abs(10 * Abs(x.n) - t * x.d) <= x.d
            /\ text = <<IF x.n < 0 THEN "-" ELSE "+">> \o str(t \div 10)
                      \o <<".">> \o str(t % 10) \o <<"%">>

Zero == F(0, 1)

\* C2: for a series of two or more rows, current is the last value, delta is
\* current minus the second-to-last value, percent_change is
\* delta / previous * 100 with a sign, and is "0%" when previous is 0.
C2_ZeroPercentText ==
    (pc = "delta_done" /\ series.some /\ Len(series.vals) >= 2) =>
        LET n == Len(series.vals)
            cur == series.vals[n]
            prev == series.vals[n - 1]
        IN /\ metrics.cpu.last = cur
           /\ metrics.cpu.delta = FSub(cur, prev)
           /\ IF prev = Zero
              THEN metrics.cpu.pct_str = <<"0", "%">>
              ELSE IsSigned1f(metrics.cpu.pct_str,
                              FMul(FDiv(FSub(cur, prev), prev), F(100, 1)))

\* C2, amended: as C2, the text for a previous value of 0 being "+0.0%".
C2_Delta ==
    (pc = "delta_done" /\ series.some /\ Len(series.vals) >= 2) =>
        LET n == Len(series.vals)
            cur == series.vals[n]
            prev == series.vals[n - 1]
        IN /\ metrics.cpu.last = cur
           /\ metrics.cpu.delta = FSub(cur, prev)
           /\ IF prev = Zero
              THEN metrics.cpu.pct_str = <<"+", "0", ".", "0", "%">>
              ELSE IsSigned1f(metrics.cpu.pct_str,
                              FMul(FDiv(FSub(cur, prev), prev), F(100, 1)))

C2_Witness ==
    /\ pc = "delta_done"
    /\ series.some
    /\ Len(series.vals) = 3
    /\ series.vals[1] # series.vals[2]
    /\ series.vals[2] = Zero
    /\ series.vals[3].k = "num" /\ series.vals[3].n > 0
    /\ metrics.cpu.pct_str = <<"+", "0", ".", "0", "%">>

C2_WitnessPercent ==
    /\ pc = "delta_done"
    /\ series.some
    /\ Len(series.vals) = 2
    /\ series.vals[1] = F(3, 1)
    /\ series.vals[2] = F(1, 1)
    /\ metrics.cpu.pct_str = <<"-", "6", "6", ".", "7", "%">>

C4_Ordering ==
    \A r \in 1..Len(heap) : IsSorted(heap[r].rows)

C4_Witness ==
    /\ pc = "done"
    /\ ~IsSorted(dropna(csv.rows))
    /\ selected_year # ALL
    /\ "efficiency" \in heap[filtered_df].columns
    /\ ds # filtered_df
    /\ Len(Drawn) < Len(Filtered)

\* the number a filter text stands for, read off the formatting
YearOf(text) == CHOOSE y \in {t.y : t \in Dates} : str(y) = text
MonthOf(text) == CHOOSE m \in {t.m : t \in Dates} : fmt02d(m) = text
DayOf(text) == CHOOSE d \in {t.d : t \in Dates} : fmt02d(d) = text

Matches(r) ==
    /\ (selected_year # ALL => r.timestamp.y = YearOf(selected_year))
    /\ (selected_month # ALL => r.timestamp.m = MonthOf(selected_month))
    /\ (selected_day # ALL => r.timestamp.d = DayOf(selected_day))

\* C5: whatever combination of year, month and day is supplied (day without
\* year included), the filtered series is exactly the rows whose calendar
\* year, month and day equal each supplied value, in their original order.
C5_Filter ==
    pc \in {"no_match", "efficiency"} => Filtered = SelectSeq(Loaded, Matches)

C5_Witness ==
    /\ pc = "efficiency"
    /\ selected_year = ALL
    /\ selected_month = ALL
    /\ selected_day # ALL
    /\ Len(Filtered) = 2
    /\ Len(Loaded) = 3
    /\ Filtered[1].timestamp.y # Filtered[2].timestamp.y

C6_WitnessNoTimestamp ==
    /\ pc = "no_data"
    /\ "timestamp" \notin csv.columns
    /\ Len(csv.rows) > 0

Lines(rows) == {rows[i].line : i \in 1..Len(rows)}

\* C7: rows whose timestamp fails to parse are dropped and never make the
\* load fail: for an input mixing parseable and unparseable timestamps, load
\* returns exactly the rows with parseable timestamps.
C7_DropUnparseable ==
    (/\ pc # "load"
     /\ "timestamp" \in csv.columns
     /\ \E i \in 1..Len(csv.rows) : csv.rows[i].timestamp.k = "ts"
     /\ \E i \in 1..Len(csv.rows) : csv.rows[i].timestamp.k = "bad") =>
        /\ pc # "load_failed"
        /\ Len(Loaded) = Cardinality(Lines(Loaded))
        /\ Lines(Loaded) = {i \in 1..Len(csv.rows) : csv.rows[i].timestamp.k = "ts"}

\* C8: for every row with nodes_total = 0, whatever nodes_running is,
\* node_utilization is nan, and the derivation raises nothing.
C8_AlwaysNaN ==
    pc \in {"save", "saved"} =>
        /\ error = ""
        /\ \A i \in 1..Len(heap[1].rows) :
              heap[1].rows[i].nodes_total = Zero =>
                  heap[1].rows[i].node_utilization = NaN

\* C8, amended: for every row with nodes_total = 0, node_utilization is nan
\* when nodes_running is 0 and +infinity when nodes_running is positive; the
\* derivation raises nothing.
C8_NaNOrInf ==
    /\ (pc = "logs_failed" /\ LogColumns \subseteq heap[1].columns) =>
          \E i \in 1..Len(heap[1].rows) : heap[1].rows[i].timestamp.k = "bad"
    /\ pc \in {"save", "saved"} =>
        /\ error = ""
        /\ \A i \in 1..Len(heap[1].rows) :
              heap[1].rows[i].nodes_total = Zero =>
                  heap[1].rows[i].node_utilization =
                      IF heap[1].rows[i].nodes_running = Zero THEN NaN ELSE PInf

C8_Witness ==
    /\ pc = "saved"
    /\ \E i, j \in 1..Len(csv.rows) :
          /\ csv.rows[i].nodes_total = Zero
          /\ csv.rows[i].nodes_running = Zero
          /\ csv.rows[i].node_utilization = NaN
          /\ csv.rows[j].nodes_total = Zero
          /\ csv.rows[j].nodes_running # Zero
          /\ csv.rows[j].node_utilization = PInf

\* C9: once loaded, the loaded series keeps its rows, columns and values
\* through every filter, efficiency, snapshot and downsampling step and every
\* rerun; no step writes into a series that exists: what it changes it
\* returns as a new one.
C9_NeverMutated ==
    [][pc # "load" =>
          /\ df' = df
          /\ Len(heap') >= 1
          /\ heap'[df] = heap[df]
          /\ \A r \in 1..Len(heap) : r <= Len(heap') => heap'[r] = heap[r]]_vars

C9_Witness ==
    /\ pc = "done"
    /\ Len(heap) = 4
    /\ selected_year # ALL
    /\ heap[filtered_df] # heap[2]
    /\ "efficiency" \notin heap[2].columns
    /\ "efficiency" \notin heap[df].columns
    /\ Len(Drawn) < Len(Loaded)
    /\ Loaded \in sort_values(dropna(csv.rows))

\* C10: with a non-empty loaded series, every selection the sidebar can
\* produce matches a row: month is chosen only under a year, day only under
\* a month, and the "No data matches the selected filters" stop is not reached.
C10_SelectionsMatch ==
    /\ pc # "no_match"
    /\ selected_month # ALL => selected_year # ALL
    /\ selected_day # ALL => selected_month # ALL
    /\ filtered_df # 0 => Len(Filtered) > 0

C10_Witness ==
    /\ pc = "efficiency"
    /\ selected_day # ALL
    /\ Len(Filtered) = 1
    /\ Len(Loaded) = 3
    /\ \E i \in 1..3 : Loaded[i].timestamp.y # int(selected_year)
    /\ \E i \in 1..3 : /\ Loaded[i].timestamp.y = int(selected_year)
                       /\ Loaded[i].timestamp.m = int(selected_month)
                       /\ Loaded[i].timestamp.d # int(selected_day)

====
